---- MODULE Spec2Model ----
(***************************************************************************)
(* A model of the link shortener of src/server.js: a Koa router in front   *)
(* of a Redis store.  Every Redis command is one atomic step of the store; *)
(* an async handler gives up control at each `await`, so the commands of   *)
(* concurrent requests interleave between those points.                   *)
(***************************************************************************)
EXTENDS Integers, Sequences, FiniteSets, TLC

\* ------------------------------------------------------------- constants

\* const LINKID_LEN = 7
LINKID_LEN == 7

\* `while (!linkid && attempts < 10)`
MaxAttempts == 10

\* nanoid(30)
TOKEN_LEN == 30

\* ---------------------------------------------------------------- bounds

\* The access counter is capped: no resolve is issued beyond it.
MaxAccessed == 2

\* In the "service" environment nanoid returns an identifier that is taken at
\* most this often in one create (in the "allocation" environment it may do
\* so in every pass of the loop).
MaxCollisions == 1

\* ---------------------------------------------------------------- values

\* An absent string (undefined / null / a missing hash field).
Nil == "<nil>"

\* An absent number (a missing `accessed` field).
NoCount == 0 - 1

\* A key without expiration.
NoTTL == 0

\* body.expire: absent, a number of seconds, or something that is no number.
NoExpire == 0
NotANumber == 0 - 1
ExpireInputs == {NoExpire, 1, NotANumber}

\* The environments the service is run in.  "allocation": clients only create
\* links, of one url, and nanoid draws from two identifiers and may return a
\* taken one in every pass.  "service": clients create, resolve, update and
\* delete links and time passes; nanoid draws one identifier.  "clients": as
\* "service" with one url, no expire and one request at a time, and with
\* clients of every kind: any session, any Authorization header, and paths
\* with a malformed identifier of the right length.
Envs == {"allocation", "service", "clients"}

\* Identifiers nanoid(LINKID_LEN) can return.
LinkIds(e) == IF e = "allocation" THEN {"aaaaaaa", "bbbbbbb"} ELSE {"aaaaaaa"}

\* Path identifiers of LINKID_LEN symbols, one of them outside the alphabet
\* of nanoid (A-Za-z0-9_-).
OffAlphabetIds == {"aaaaaa!"}

\* The key ioredis sends for an undefined linkid (an empty string).
UndefinedKey == ""

\* Identifiers a client can put in the path: those created, and a short one.
PathIds(e) ==
    LinkIds(e) \cup {"aaaaaa"} \cup (IF e = "clients" THEN OffAlphabetIds ELSE {})

Keys == {"aaaaaaa", "bbbbbbb", UndefinedKey} \cup OffAlphabetIds

\* Tokens: the value of an Authorization header, and the value nanoid(30) mints.
HeaderTokens == {"t1"}
MintedTokens == {"mmmmmmmmmmmmmmmmmmmmmmmmmmmmmm"}
Tokens == HeaderTokens \cup MintedTokens

\* Absolute URLs, and body.url: one of them, absent (Nil), or a string that
\* `new URL` rejects.
AbsoluteUrls(e) == IF e = "service" THEN {"https://a/", "https://b/"}
                   ELSE {"https://a/"}
UrlInputs(e) == AbsoluteUrls(e) \cup {Nil, "not a url"}

\* body.expire in an environment.
ExpireInputsIn(e) == IF e = "service" THEN ExpireInputs ELSE {NoExpire}

\* The consecutive collisions nanoid may produce in one create.
CollisionLimit(e) == IF e = "allocation" THEN MaxAttempts ELSE MaxCollisions

\* body.baseUrl after the default of router.post is applied.
BaseUrls == {"http://localhost:3000"}

\* new Date()
Dates == {"date"}

\* The requests that may be suspended at an `await` at the same time.
Slots == {"r1", "r2"}

\* The slots requests arrive in: in the "clients" environment the requests
\* come one after the other.
SlotsOf(e) == IF e = "clients" THEN {"r1"} ELSE Slots

\* ----------------------------------------------------------------- store

VARIABLES env, store, req, last, hist

vars == <<env, store, req, last, hist>>

NoHash == [url |-> Nil, baseUrl |-> Nil, accessed |-> NoCount,
           createdAt |-> Nil, token |-> Nil, ttl |-> NoTTL]

StrFields == {"url", "baseUrl", "createdAt", "token"}

\* A Redis key exists while its hash holds at least one field.
KeyExists(st, k) ==
    \/ \E f \in StrFields : st[k][f] # Nil
    \/ st[k].accessed # NoCount

\* HEXISTS key field
HExists(st, k, f) == IF st[k][f] # Nil THEN 1 ELSE 0

\* HGET key field (a string field)
HGet(st, k, f) == st[k][f]

\* HMSET key url baseUrl accessed createdAt token: the TTL of the key stays.
HMSet(st, k, url, baseUrl, createdAt, token) ==
    [st EXCEPT ![k] = [url |-> url, baseUrl |-> baseUrl, accessed |-> 0,
                       createdAt |-> createdAt, token |-> token,
                       ttl |-> st[k].ttl]]

\* HSET with the field name of the owner token instead of "url".
HSetWrongField(st, k, url) == [st EXCEPT ![k].token = url]

\* A write of the url that also drops the time to live of the key (as SET
\* does for a string key).
HSetDropsTTL(st, k, url) == [st EXCEPT ![k].url = url, ![k].ttl = NoTTL]

\* HSET key url value
HSetUrl(st, k, url) == [st EXCEPT ![k].url = url]

\* HINCRBY key accessed 1: a missing field counts from 0.
HIncrBy(st, k) ==
    [st EXCEPT ![k].accessed = (IF @ = NoCount THEN 0 ELSE @) + 1]

\* EXPIRE key seconds (seconds > 0): 0 and no change when the key is missing.
Expire(st, k, secs) ==
    IF KeyExists(st, k) THEN [st EXCEPT ![k].ttl = secs] ELSE st

\* UNLINK key
Unlink(st, k) == [st EXCEPT ![k] = NoHash]

UnlinkCount(st, k) == IF KeyExists(st, k) THEN 1 ELSE 0

\* new URL(url) throws a TypeError unless url parses as an absolute URL.
URLThrows(url) == \A e \in Envs : url \notin AbsoluteUrls(e)

\* ------------------------------------------------------------- requests

\* A handler suspended at an await: where it stands and the locals it still
\* reads.  The body and the session of a POST are not read by anything but the
\* handler itself, so the model draws them where the handler first uses their
\* value (the write), not on arrival.  token is ctx.session.token of a PATCH or
\* DELETE that has passed the token check.
Idle == [pc |-> "idle", method |-> Nil, linkid |-> Nil, token |-> Nil,
         url |-> Nil, expire |-> NoExpire, attempts |-> 0, checks |-> 0]

\* No Authorization header.
NoAuth == [scheme |-> Nil, value |-> Nil]

\* A step in which router.all("*") resolved no session token.
NoSession == [sess |-> Nil, auth |-> NoAuth, minted |-> Nil]

\* What the last step did: the command it ran and the response it sent
\* (status 0: none, the handler is suspended at its next await).
\* For a create's write, prev* is the record the write replaced: its url and
\* token and the answer of the create that wrote it.  session is what
\* router.all("*") found for the request whose token is in `token`.
NoLast == [method |-> Nil, linkid |-> Nil, token |-> Nil, url |-> Nil,
           cmd |-> Nil, status |-> 0, location |-> Nil, accessed |-> NoCount,
           removed |-> NoCount, mutated |-> FALSE,
           prevUrl |-> Nil, prevToken |-> Nil, prevCreated |-> Nil,
           session |-> NoSession]

\* History of a key, kept for the properties only (the code holds none of it).
\*   curUrl, curN: the url the latest create wrote under the key and the
\*       resolves since, while that record has been there ever since (not
\*       deleted, not expired, its url not patched); Nil when there is none;
\*   created: for that record, the slot of the create while it has not
\*       answered, then "201" or "500", the status it answered with;
\*   deletedToken: the owner token of the record a DELETE removed, until a
\*       create writes the key again;
\*   expired: the time to live of a record with a url under the key has run
\*       out, and no create has written the key since.
NoHist == [curUrl |-> Nil, curN |-> 0, created |-> Nil, deletedToken |-> Nil,
           expired |-> FALSE]

Init ==
    /\ env \in Envs
    /\ store = [k \in Keys |-> NoHash]
    /\ req = [s \in Slots |-> Idle]
    /\ last = NoLast
    /\ hist = [k \in Keys |-> NoHist]

\* ------------------------------------------- session token, router.all("*")

AuthHeaders ==
    {NoAuth} \cup [scheme : {"Token", "token", "Bearer"}, value : HeaderTokens]

\* The scheme keyword in lower case (the /i flag of the pattern).
Lower(scheme) == IF scheme \in {"Token", "TOKEN", "token"} THEN "token" ELSE scheme

\* /^token\s\S+$/i.test(auth)
AuthTest(auth) == auth # NoAuth /\ Lower(auth.scheme) = "token" /\ auth.value # Nil

\* A resolution in which the header wins over the token of the session.
SessionTokenHeaderFirst(sess, auth, minted) ==
    IF AuthTest(auth) THEN auth.value
    ELSE IF sess # Nil THEN sess
    ELSE minted

\* The token of ctx.session once router.all("*") has run.
SessionToken(sess, auth, minted) ==
    IF sess # Nil THEN sess
    ELSE IF AuthTest(auth) THEN auth.value
    ELSE minted

\* What router.all("*") finds when a request of the model arrives: the token
\* of its session (Nil: none), its Authorization header, and the token
\* nanoid(30) returns if it is called.
SessionInputs(e) ==
    IF e = "allocation"
    THEN [sess : {Nil}, auth : {NoAuth}, minted : MintedTokens]
    ELSE IF e = "service"
    THEN [sess : {Nil},
          auth : {NoAuth} \cup [scheme : {"Token"}, value : HeaderTokens],
          minted : MintedTokens]
    ELSE [sess : Tokens \cup {Nil}, auth : AuthHeaders, minted : MintedTokens]

\* ------------------------------------------------------------ responses

Step(method, linkid, cmd, status, st) ==
    [method |-> method, linkid |-> linkid, token |-> Nil, url |-> Nil,
     cmd |-> cmd, status |-> status, location |-> Nil, accessed |-> NoCount,
     removed |-> NoCount, mutated |-> st # store,
     prevUrl |-> Nil, prevToken |-> Nil, prevCreated |-> Nil,
     session |-> NoSession]

\* The history once the record under k is gone or its url is replaced.
Forget(h, k) ==
    [h EXCEPT ![k] = [NoHist EXCEPT !.deletedToken = h[k].deletedToken,
                                    !.expired = h[k].expired]]

\* The history once slot s has answered a create of key k with `status`.
Answered(h, k, s, status) ==
    IF h[k].created = s
    THEN [h EXCEPT ![k].created = IF status = 201 THEN "201" ELSE "500"]
    ELSE h

\* The history once a create of slot s has written url under k.
Written(h, k, s, url) ==
    [h EXCEPT ![k] = [curUrl |-> url, curN |-> 0, created |-> s,
                      deletedToken |-> Nil, expired |-> FALSE]]

\* The history once k has been resolved.
Resolved(h, k) ==
    [h EXCEPT ![k].curN = IF h[k].curUrl = Nil THEN 0 ELSE @ + 1]

\* The key a command is sent for: an undefined linkid becomes UndefinedKey.
KeyOf(linkid) == IF linkid = Nil THEN UndefinedKey ELSE linkid

\* ------------------------------------------------- router.post("/")

\* `expire` is falsy when absent (or 0).
Truthy(expire) == expire # NoExpire

\* The loop condition off by one: attempts <= 10.
LoopAgainOffByOne(linkid, attempts) == linkid = Nil /\ attempts <= MaxAttempts

\* while (!linkid && attempts < 10)
LoopAgain(linkid, attempts) == linkid = Nil /\ attempts < MaxAttempts

\* One pass of the do-while body for the identifier nanoid returned.
LoopBody(r, id) ==
    IF HExists(store, id, "url") = 1
    THEN [r EXCEPT !.linkid = Nil, !.attempts = @ + 1, !.checks = @ + 1]
    ELSE [r EXCEPT !.linkid = id, !.checks = @ + 1]

\* The request after one pass: back at the existence check, or at the write.
AfterPass(r, id) ==
    LET n == LoopBody(r, id)
    IN  [n EXCEPT !.pc = IF LoopAgain(n.linkid, n.attempts)
                         THEN "hexists" ELSE "hmset"]

\* A POST arrives: the url is validated (the TypeError `new URL` throws is not
\* caught, and Koa answers an error without a status with 500) and the first
\* existence check is made.
PostCreate(s) ==
    /\ env' = env
    /\ s \in SlotsOf(env)
    /\ req[s].pc = "idle"
    /\ \E url \in UrlInputs(env) \ {Nil}, id \in LinkIds(env) :
          IF URLThrows(url)
          THEN /\ req' = req
               /\ last' = [Step("POST", Nil, Nil, 500, store) EXCEPT !.url = url]
          ELSE /\ HExists(store, id, "url") = 1 => 0 < CollisionLimit(env)
               /\ req' = [req EXCEPT ![s] =
                            AfterPass([Idle EXCEPT !.method = "POST"], id)]
               /\ last' = Step("POST", id, "hexists", 0, store)
    /\ store' = store
    /\ hist' = hist

\* A further pass of the loop.
PostRetry(s) ==
    /\ env' = env
    /\ req[s].pc = "hexists"
    /\ \E id \in LinkIds(env) :
          /\ HExists(store, id, "url") = 1 => req[s].attempts < CollisionLimit(env)
          /\ req' = [req EXCEPT ![s] = AfterPass(req[s], id)]
          /\ last' = Step("POST", id, "hexists", 0, store)
    /\ store' = store
    /\ hist' = hist

\* A write that keeps a record that is already there (a create-if-absent).
PostWriteIfAbsent(st, linkid, url, baseUrl, createdAt, token) ==
    IF HExists(st, KeyOf(linkid), "url") = 1 THEN st
    ELSE HMSet(st, KeyOf(linkid), url, baseUrl, createdAt, token)

\* redis.hmset(linkid, {url, baseUrl, accessed: 0, createdAt, token}); the
\* answer is always "OK".
PostWrite(st, linkid, url, baseUrl, createdAt, token) ==
    HMSet(st, KeyOf(linkid), url, baseUrl, createdAt, token)

PostHmset(s) ==
    /\ env' = env
    /\ req[s].pc = "hmset"
    /\ \E url \in AbsoluteUrls(env), baseUrl \in BaseUrls, createdAt \in Dates,
          in \in SessionInputs(env), expire \in ExpireInputsIn(env) :
          LET token == SessionToken(in.sess, in.auth, in.minted)
              k == KeyOf(req[s].linkid)
              status == IF Truthy(expire) THEN 0 ELSE 201
              written == Written(hist, k, s, url)
          IN  /\ store' = PostWrite(store, req[s].linkid, url, baseUrl,
                                     createdAt, token)
              /\ req' = [req EXCEPT ![s] =
                            IF Truthy(expire)
                            THEN [Idle EXCEPT !.pc = "expire", !.method = "POST",
                                              !.linkid = req[s].linkid,
                                              !.expire = expire]
                            ELSE Idle]
              /\ last' = [Step("POST", req[s].linkid, "hmset", status, store')
                            EXCEPT !.url = url, !.token = token,
                                   !.session = in,
                                   !.prevUrl = HGet(store, k, "url"),
                                   !.prevToken = HGet(store, k, "token"),
                                   !.prevCreated = hist[k].created]
              /\ hist' = IF status = 201 THEN Answered(written, k, s, 201)
                         ELSE written

\* if (expire) await redis.expire(linkid, expire): Redis refuses what is no
\* integer, the rejection is thrown and Koa answers 500.
PostExpire(s) ==
    /\ env' = env
    /\ req[s].pc = "expire"
    /\ req[s].method = "POST"
    /\ IF req[s].expire = NotANumber
       THEN /\ store' = store
            /\ last' = Step("POST", req[s].linkid, "expire", 500, store')
       ELSE /\ store' = Expire(store, KeyOf(req[s].linkid), req[s].expire)
            /\ last' = Step("POST", req[s].linkid, "expire", 201, store')
    /\ req' = [req EXCEPT ![s] = Idle]
    /\ hist' = Answered(hist, KeyOf(req[s].linkid), s, last'.status)

\* ------------------------------------------------- router.param("linkid")

\* ctx.assert(linkid.length === LINKID_LEN, 422)
ParamOk(linkid) == Len(linkid) = LINKID_LEN

\* ------------------------------------------------- router.get("/:linkid")

\* A resolve that reads the url and leaves the counter alone.
ResolveNoCount(st, linkid) == st

\* A resolve that writes a count of 1 instead of incrementing the counter.
ResolveSetsOne(st, linkid) == [st EXCEPT ![linkid].accessed = 1]

\* multi().hincrby(linkid, "accessed", 1).hget(linkid, "url").exec()
Resolve(st, linkid) == HIncrBy(st, linkid)

\* A resolve without the assertion: it redirects to whatever it read.
ResolveStatusNoAssert(fullUrl) == 301

\* ctx.assert(fullUrl, 404); ctx.status = 301
ResolveStatus(fullUrl) == IF fullUrl = Nil THEN 404 ELSE 301

Get ==
    /\ env' = env
    /\ env # "allocation"
    /\ \E linkid \in PathIds(env) :
        IF ~ParamOk(linkid)
        THEN /\ store' = store
             /\ last' = Step("GET", linkid, Nil, 422, store')
             /\ req' = req
             /\ hist' = hist
        ELSE /\ store[linkid].accessed < MaxAccessed
             /\ store' = Resolve(store, linkid)
             /\ LET fullUrl == HGet(store', linkid, "url")
                    accessed == store'[linkid].accessed
                    status == ResolveStatus(fullUrl)
                IN  last' = IF status = 404
                            THEN Step("GET", linkid, "multi", 404, store')
                            ELSE [Step("GET", linkid, "multi", status, store') EXCEPT
                                    !.location = fullUrl,
                                    !.accessed = accessed]
             /\ req' = req
             /\ hist' = Resolved(hist, linkid)

\* ------------------------------------------------- router.all("/:linkid")

\* The token check without the 404 of a missing record: only a present token
\* that differs is refused.
TokenCheckNo404(token, sessionToken) ==
    IF token # Nil /\ token # sessionToken THEN 401 ELSE 0

\* The token check without the comparison: any caller passes.
TokenCheckNo401(token, sessionToken) == IF token = Nil THEN 404 ELSE 0

\* The status the token check ends the request with, 0 when it passes.
TokenCheck(token, sessionToken) ==
    IF token = Nil THEN 404
    ELSE IF token # sessionToken THEN 401
    ELSE 0

\* Where router.patch("/:linkid") stands once the token check has passed.
PatchEntry(url, expire) ==
    IF url # Nil
    THEN IF URLThrows(url) THEN "throw" ELSE "hset"
    ELSE IF Truthy(expire) THEN "expire" ELSE "done"

\* A PATCH or DELETE arrives: the identifier is validated and the owner token
\* is read and compared.
Modify(s) ==
    /\ env' = env
    /\ s \in SlotsOf(env)
    /\ req[s].pc = "idle"
    /\ env # "allocation"
    /\ \E method \in {"PATCH", "DELETE"}, linkid \in PathIds(env),
          in \in SessionInputs(env) :
       \E url \in IF method = "PATCH" THEN UrlInputs(env) ELSE {Nil},
          expire \in IF method = "PATCH" THEN ExpireInputsIn(env) ELSE {NoExpire} :
          LET token == SessionToken(in.sess, in.auth, in.minted)
              r == [Idle EXCEPT !.method = method, !.linkid = linkid,
                                !.token = token,
                                !.url = url, !.expire = expire]
              status == IF ParamOk(linkid)
                        THEN TokenCheck(HGet(store, linkid, "token"), token)
                        ELSE 422
              entry == IF method = "DELETE" THEN "unlink"
                       ELSE PatchEntry(r.url, r.expire)
              cmd == IF ParamOk(linkid) THEN "hget" ELSE Nil
              answer == IF status # 0 THEN status
                        ELSE IF entry = "throw" THEN 500
                        ELSE IF entry = "done" THEN 200
                        ELSE 0
          IN  /\ req' = IF answer # 0 THEN req
                        ELSE [req EXCEPT ![s] = [r EXCEPT !.pc = entry]]
              /\ last' = [Step(method, linkid, cmd, answer, store)
                            EXCEPT !.token = token, !.session = in]
    /\ store' = store
    /\ hist' = hist

\* ------------------------------------------------- router.delete("/:linkid")

DeleteUnlink(s) ==
    /\ env' = env
    /\ req[s].pc = "unlink"
    /\ store' = Unlink(store, req[s].linkid)
    /\ last' = [Step("DELETE", req[s].linkid, "unlink", 200, store') EXCEPT
                  !.removed = UnlinkCount(store, req[s].linkid)]
    /\ req' = [req EXCEPT ![s] = Idle]
    /\ hist' = IF last'.removed = 1
               THEN [Forget(hist, req[s].linkid) EXCEPT
                        ![req[s].linkid].deletedToken =
                            HGet(store, req[s].linkid, "token")]
               ELSE hist

\* ------------------------------------------------- router.patch("/:linkid")

PatchHset(s) ==
    /\ env' = env
    /\ req[s].pc = "hset"
    /\ store' = HSetUrl(store, req[s].linkid, req[s].url)
    /\ hist' = Forget(hist, req[s].linkid)
    /\ IF Truthy(req[s].expire)
       THEN /\ req' = [req EXCEPT ![s].pc = "expire"]
            /\ last' = Step("PATCH", req[s].linkid, "hset", 0, store')
       ELSE /\ req' = [req EXCEPT ![s] = Idle]
            /\ last' = Step("PATCH", req[s].linkid, "hset", 200, store')

PatchExpire(s) ==
    /\ env' = env
    /\ req[s].pc = "expire"
    /\ req[s].method = "PATCH"
    /\ IF req[s].expire = NotANumber
       THEN /\ store' = store
            /\ last' = Step("PATCH", req[s].linkid, "expire", 500, store')
       ELSE /\ store' = Expire(store, req[s].linkid, req[s].expire)
            /\ last' = Step("PATCH", req[s].linkid, "expire", 200, store')
    /\ req' = [req EXCEPT ![s] = Idle]
    /\ hist' = hist

\* ------------------------------------------------------------ expiration

\* A second passes: Redis removes the keys whose time to live has run out.
Elapse(st) ==
    [k \in Keys |->
        IF st[k].ttl = NoTTL THEN st[k]
        ELSE IF st[k].ttl = 1 THEN NoHash
        ELSE [st[k] EXCEPT !.ttl = @ - 1]]

Tick ==
    /\ \E k \in Keys : store[k].ttl # NoTTL
    /\ store' = Elapse(store)
    /\ last' = [NoLast EXCEPT !.cmd = "tick", !.mutated = TRUE]
    /\ req' = req
    /\ env' = env
    /\ hist' = [k \in Keys |->
                  IF KeyExists(store, k) /\ ~KeyExists(store', k)
                  THEN [Forget(hist, k)[k] EXCEPT
                          !.expired = @ \/ store[k].url # Nil]
                  ELSE hist[k]]

\* ------------------------------------------------------------------ spec

Next ==
    \/ \E s \in Slots : PostCreate(s)
    \/ \E s \in Slots : PostRetry(s)
    \/ \E s \in Slots : PostHmset(s)
    \/ \E s \in Slots : PostExpire(s)
    \/ Get
    \/ \E s \in Slots : Modify(s)
    \/ \E s \in Slots : DeleteUnlink(s)
    \/ \E s \in Slots : PatchHset(s)
    \/ \E s \in Slots : PatchExpire(s)
    \/ Tick

Spec == Init /\ [][Next]_vars

\* ---------------------------------------------------------------- claims

\* The keys a well-formed identifier of the model can name.
WellFormed == {k \in Keys : ParamOk(k)}

\* The step just taken is the multi/exec of a resolve of a well-formed id.
Resolving == last.cmd = "multi"

\* C1 (amended): while the record the latest create wrote under i is there
\* (not deleted, not expired, its url not patched, not written again by
\* another create), every resolve of i redirects (301) to the url that create
\* wrote, and the k-th resolve since that write reports access count k.
Thm_C1 ==
    (Resolving /\ hist[last.linkid].curUrl # Nil)
        => /\ last.status = 301
           /\ last.location = hist[last.linkid].curUrl
           /\ last.accessed = hist[last.linkid].curN

\* A second resolve in a row of a link whose create answered 201.
Witness_C1 ==
    /\ Resolving
    /\ last.status = 301
    /\ last.accessed = 2
    /\ hist[last.linkid].curN = 2
    /\ hist[last.linkid].created = "201"

\* The steps C1 excepts for key k: its delete, its expiry, a patch of it.
C1_Excepted(k) ==
    \/ last'.cmd = "tick"
    \/ last'.linkid = k /\ last'.cmd \in {"unlink", "hset"}
    \/ last'.linkid = k /\ last'.cmd = "expire" /\ last'.method = "PATCH"

\* The url and the counter of a record whose create has answered 201 stay
\* as they are in every step that is not excepted, but for the +1 of a resolve.
C1_Kept(k) ==
    (hist[k].created = "201" /\ ~C1_Excepted(k))
        => /\ store'[k].url = store[k].url
           /\ store'[k].accessed =
                store[k].accessed
                + (IF last'.cmd = "multi" /\ last'.linkid = k THEN 1 ELSE 0)

\* A resolve of a record whose create has answered 201 redirects to the url
\* under the key and reports the counter under the key.
C1_Answer ==
    (Resolving /\ hist[last.linkid].created = "201")
        => /\ last.status = 301
           /\ last.location = store[last.linkid].url
           /\ last.accessed = store[last.linkid].accessed

\* A create writes its url with a counter of 0.
C1_Start ==
    last.cmd = "hmset"
        => /\ store[KeyOf(last.linkid)].url = last.url
           /\ store[KeyOf(last.linkid)].accessed = 0

\* C1 (as stated): after a create of u returned i, and as long as i is not
\* deleted, expired or patched, every resolve of i redirects to u and the k-th
\* resolve reports k: the record starts at (u, 0), each resolve answers what is
\* under the key, and nothing but a resolve, a delete, an expiry or a patch
\* changes the url or the counter under the key.
CE_C1 ==
    /\ [](C1_Start /\ C1_Answer)
    /\ [][\A k \in WellFormed : C1_Kept(k)]_vars

\* C2 (as stated): a resolve answered 404 leaves the store as it was.
CE_C2 == (last.method = "GET" /\ last.status = 404) => ~last.mutated

\* A create all of whose 10 existence checks collided.
Exhausted(r) == r.pc = "hmset" /\ r.attempts = MaxAttempts

\* C3 (as stated): when all 10 attempts of a create collided, the create
\* writes no record under any key and answers with a server error, not 201.
CE_C3 ==
    [][\A s \in Slots :
          (Exhausted(req[s]) /\ req'[s] # req[s])
              => (store' = store /\ last'.status >= 500)]_vars

\* The existence checks of a create: never more than MaxAttempts; in the
\* loop as many as collisions; out of it with an identifier, one more.
C4_Counts ==
    \A s \in Slots :
        /\ req[s].checks <= MaxAttempts
        /\ req[s].pc = "hexists"
            => /\ req[s].linkid = Nil
               /\ req[s].attempts < MaxAttempts
               /\ req[s].checks = req[s].attempts
        /\ (req[s].pc = "hmset" /\ req[s].linkid # Nil)
            => /\ req[s].attempts < MaxAttempts
               /\ req[s].checks = req[s].attempts + 1

\* The loop is left with the identifier of its last check, which was absent.
C4_Exit ==
    \A s \in Slots :
        (req[s].pc \in {"idle", "hexists"} /\ req'[s].pc = "hmset"
                                            /\ req'[s].linkid # Nil)
            => /\ last'.cmd = "hexists"
               /\ last'.linkid = req'[s].linkid
               /\ HExists(store, req'[s].linkid, "url") = 0

\* The create goes on with that identifier: it writes its record under it.
C4_Write ==
    \A s \in Slots :
        (req[s].pc = "hmset" /\ req[s].linkid # Nil /\ req'[s] # req[s])
            => /\ last'.cmd = "hmset"
               /\ last'.linkid = req[s].linkid
               /\ last'.status \in {0, 201}
               /\ store'[req[s].linkid].url = last'.url

\* C4: after c collisions in a row, 0 <= c <= 9, and a check that finds the
\* identifier absent, the loop has ended after exactly c + 1 checks and the
\* create writes under the identifier of the last check; no create makes more
\* than 10 checks.
Thm_C4 == []C4_Counts /\ [][C4_Exit /\ C4_Write]_vars

\* A create that leaves the loop after 9 collisions and a 10th check.
Witness_C4 ==
    \E s \in Slots :
        /\ req[s].pc = "hmset"
        /\ req[s].linkid # Nil
        /\ req[s].attempts = MaxAttempts - 1
        /\ req[s].checks = MaxAttempts

\* The step just taken is the token check of a DELETE of an identifier whose
\* record a DELETE removed, by a caller with the token of that record.
SecondDelete ==
    /\ last.method = "DELETE"
    /\ last.cmd = "hget"
    /\ last.token = hist[last.linkid].deletedToken

\* A DELETE that passed the token check unlinks the key, answers 200, and
\* reports removed = 1 exactly when there was something under the key.
C5_Unlink ==
    last.cmd = "unlink"
        => /\ last.status = 200
           /\ ~KeyExists(store, last.linkid)
           /\ last.removed = (IF last.mutated THEN 1 ELSE 0)

\* An unlink leaves every other key alone.
C5_Others ==
    last'.cmd = "unlink"
        => \A k \in Keys \ {last'.linkid} : store'[k] = store[k]

\* C5 (as stated): the DELETE with the owner token removes the record and
\* reports removed = 1; a second DELETE of the identifier with the same token
\* passes the token check (to report removed = 0 with a 200).
CE_C5 == C5_Unlink /\ (SecondDelete => last.status = 0)

\* C5 (amended): a DELETE with the owner token of a record that is there when
\* the unlink runs removes exactly that record and reports removed = 1; a
\* second DELETE of the identifier with the same token, before a create
\* writes it again, is answered 404 by the token check and changes nothing.
Thm_C5 ==
    /\ [](C5_Unlink /\ (SecondDelete => (last.status = 404 /\ ~last.mutated)))
    /\ [][C5_Others]_vars

\* The second DELETE has been answered.
Witness_C5 == SecondDelete /\ last.status = 404

\* The step just taken is the token check of a PATCH or DELETE by a caller
\* whose token differs from the owner token of the record.
Mismatch ==
    /\ last.method \in {"PATCH", "DELETE"}
    /\ last.cmd = "hget"
    /\ HGet(store, last.linkid, "token") \notin {Nil, last.token}

\* In the state reached, a DELETE with the owner token would pass the token
\* check and its unlink would report removed = 1.
OwnerCanDelete(k) ==
    /\ TokenCheck(HGet(store, k, "token"), HGet(store, k, "token")) = 0
    /\ UnlinkCount(store, k) = 1

\* C6: a PATCH or DELETE with a token that differs from the owner token is
\* answered 401 and leaves the store, and so the record, unchanged; a DELETE
\* with the owner token then still removes the record.
Thm_C6 ==
    /\ [](Mismatch => (last.status = 401 /\ OwnerCanDelete(last.linkid)))
    /\ [](last.status = 401 => Mismatch)
    /\ [][last'.status = 401 => (store' = store /\ req' = req)]_vars

\* A PATCH of an existing record has been answered 401.
Witness_C6 ==
    /\ last.method = "PATCH"
    /\ last.status = 401
    /\ store[last.linkid].url # Nil

\* C7 (as stated): a record keeps its owner token until it is deleted or
\* expires.
CE_C7 ==
    [][\A k \in Keys :
          (store[k].token # Nil /\ store'[k].token # Nil)
              => store'[k].token = store[k].token]_vars

\* C7 (amended): the owner token under a key is set only by the write of a
\* create and cleared only by a delete or an expiry: no resolve or update
\* changes it, and a record keeps its owner token until it is deleted,
\* expires, or is written again by a concurrent create.
Thm_C7 ==
    [][\A k \in Keys :
          store'[k].token # store[k].token
              => \/ /\ store'[k].token = Nil
                    /\ last'.cmd \in {"unlink", "tick"}
                 \/ /\ last'.cmd = "hmset"
                    /\ KeyOf(last'.linkid) = k
                    /\ store'[k].token = last'.token]_vars

\* An update has replaced the url of a record, whose owner token is still
\* the one of its create.
Witness_C7 ==
    /\ last.cmd = "hset"
    /\ last.mutated
    /\ store[last.linkid].token # Nil

\* C8: the write of a create is unconditional: whatever is under the
\* identifier when it runs, the record there is afterwards the writer's (its
\* url, its token, a counter of 0) and the create goes on to answer 201.
Thm_C8 ==
    last.cmd = "hmset"
        => /\ store[KeyOf(last.linkid)].url = last.url
           /\ store[KeyOf(last.linkid)].token = last.token
           /\ store[KeyOf(last.linkid)].accessed = 0
           /\ last.status \in {0, 201}

\* Two creates passed the existence check for one identifier; the first wrote
\* and answered 201; the second has now written over that record, another url
\* and another owner token, and answered 201 with the same identifier.
Witness_C8 ==
    /\ last.cmd = "hmset"
    /\ last.status = 201
    /\ last.linkid # Nil
    /\ last.prevCreated = "201"
    /\ last.prevUrl \notin {Nil, last.url}
    /\ last.prevToken \notin {Nil, last.token}
    /\ store[last.linkid].url = last.url
    /\ store[last.linkid].token = last.token

\* A PATCH one of whose supplied fields is invalid.
InvalidPatch(r) ==
    /\ r.method = "PATCH"
    /\ \/ r.url # Nil /\ URLThrows(r.url)
       \/ r.expire = NotANumber

\* C9 (as stated): a PATCH in which a supplied field is invalid changes
\* neither the url nor the time to live of the record: none of its steps
\* changes the store.
CE_C9 ==
    [][\A s \in Slots :
          (InvalidPatch(req[s]) /\ req'[s] # req[s]) => store' = store]_vars

\* C10 (as stated): a PATCH or DELETE by a caller who does not hold the owner
\* token is answered the same whether or not there is a record under the
\* identifier.
CE_C10 ==
    \A k \in WellFormed : \A t \in Tokens :
        t # HGet(store, k, "token")
            => TokenCheck(HGet(store, k, "token"), t) = TokenCheck(Nil, t)

\* C11 (as stated): once the time to live set on a record has run out, every
\* resolve of its identifier is answered 404 (until a create writes the
\* identifier again); while it has not run out, a resolve redirects to the url.
CE_C11 ==
    /\ (Resolving /\ hist[last.linkid].expired) => last.status = 404
    /\ (Resolving /\ store[last.linkid].url # Nil
                  /\ store[last.linkid].ttl # NoTTL)
          => (last.status = 301 /\ last.location = store[last.linkid].url)

\* C12: a resolve of a well-formed identifier under which there is no url is
\* answered 404 and leaves the identifier without a url, whatever happened to
\* the identifier before.
Thm_C12 ==
    [][(last'.cmd = "multi" /\ store[last'.linkid].url = Nil)
          => (last'.status = 404 /\ store'[last'.linkid].url = Nil)]_vars

\* A resolve answered 404 for an identifier whose record was deleted and which
\* an earlier resolve had already failed on.
Witness_C12 ==
    /\ Resolving
    /\ last.status = 404
    /\ hist[last.linkid].deletedToken # Nil
    /\ store[last.linkid].accessed = 2

\* C13 (as stated): when a PATCH writes a url under an identifier, the record
\* that is under it at that moment has the session token of the PATCH's caller
\* as its owner token.
CE_C13 ==
    [][\A s \in Slots :
          (req[s].pc = "hset" /\ req'[s] # req[s])
              => HGet(store, req[s].linkid, "token") = req[s].token]_vars

\* C14 (as stated): a create whose url is not an absolute URL is answered 422
\* before any store command: none is sent and nothing is written.
CE_C14 ==
    (last.method = "POST" /\ last.url # Nil /\ URLThrows(last.url))
        => /\ last.status = 422
           /\ last.cmd = Nil
           /\ ~last.mutated

\* The step just taken used the session token of its request: the write of a
\* create, or the token check of a PATCH or DELETE.
SessionUsed == last.cmd \in {"hmset", "hget"}

\* C15: a session that carries a token keeps it whatever the Authorization
\* header; a session without one takes the value of a header `token <value>`
\* (keyword in any case), and without such a header a minted token of 30
\* symbols; that token is the one a create stores as owner token and the one
\* the token check of a PATCH or DELETE compares the owner token with.
Thm_C15 ==
    /\ SessionUsed =>
          LET in == last.session
          IN  /\ in.sess # Nil => last.token = in.sess
              /\ (in.sess = Nil /\ in.auth.scheme \in {"Token", "token"})
                    => last.token = in.auth.value
              /\ (in.sess = Nil /\ in.auth.scheme \notin {"Token", "token"})
                    => (last.token = in.minted /\ Len(last.token) = TOKEN_LEN)
    /\ last.cmd = "hmset" => store[KeyOf(last.linkid)].token = last.token
    /\ (last.cmd = "hget" /\ store[last.linkid].token # Nil)
          => (last.status = 401 <=> store[last.linkid].token # last.token)

\* A DELETE passed the token check with the token its session carried, which
\* is the owner token, while its Authorization header named another token.
Witness_C15 ==
    /\ last.cmd = "hget"
    /\ last.method = "DELETE"
    /\ last.status = 0
    /\ last.session.sess = store[last.linkid].token
    /\ AuthTest(last.session.auth)
    /\ last.session.auth.value # last.session.sess

\* C16: the increment and the url read of a resolve are one step of the
\* store.  A resolve of an existing record reports exactly the count it found
\* plus 1, which is the count it leaves, and the url that is there before and
\* after; the step changes nothing else in the store and moves no other
\* request.  So k resolves of a record, however they are interleaved with
\* each other and with suspended requests, report k distinct counts in a row
\* and leave the count k higher.
Thm_C16 ==
    [][(last'.cmd = "multi" /\ store[last'.linkid].url # Nil
                            /\ store[last'.linkid].accessed # NoCount)
          => LET i == last'.linkid
             IN  /\ last'.status = 301
                 /\ last'.accessed = store[i].accessed + 1
                 /\ last'.location = store[i].url
                 /\ store' = [store EXCEPT ![i].accessed = last'.accessed]
                 /\ req' = req]_vars

\* The second resolve of a record has answered while both other requests are
\* suspended in the middle of their handlers.
Witness_C16 ==
    /\ Resolving
    /\ last.status = 301
    /\ last.accessed = 2
    /\ \A s \in Slots : req[s].pc # "idle"

\* An identifier of the wrong length, or with a symbol outside the alphabet.
Malformed(linkid) == Len(linkid) # LINKID_LEN \/ linkid \in OffAlphabetIds

\* C17 (as stated): a resolve, PATCH or DELETE of a malformed identifier is
\* answered 422 before any store command is sent, and the store stays as it
\* was.
CE_C17 ==
    (last.method \in {"GET", "PATCH", "DELETE"} /\ Malformed(last.linkid))
        => /\ last.status = 422
           /\ last.cmd = Nil
           /\ ~last.mutated

\* C18: a step of a PATCH that passed the token check changes no key but its
\* own and there neither the counter, the owner token, the base url nor the
\* creation date; it leaves the url alone when the body has no url, and the
\* time to live when the body has no expire.
Thm_C18 ==
    [][\A s \in Slots :
          (req[s].method = "PATCH" /\ req'[s] # req[s])
              => LET i == req[s].linkid
                 IN  /\ \A k \in Keys \ {i} : store'[k] = store[k]
                     /\ store'[i].accessed = store[i].accessed
                     /\ store'[i].token = store[i].token
                     /\ store'[i].baseUrl = store[i].baseUrl
                     /\ store'[i].createdAt = store[i].createdAt
                     /\ req[s].url = Nil => store'[i].url = store[i].url
                     /\ req[s].expire = NoExpire
                           => store'[i].ttl = store[i].ttl]_vars

\* A PATCH with only a url has replaced the url of a record that has a time
\* to live, and answered 200.
Witness_C18 ==
    /\ last.method = "PATCH"
    /\ last.cmd = "hset"
    /\ last.status = 200
    /\ last.mutated
    /\ store[last.linkid].token # Nil
    /\ store[last.linkid].ttl # NoTTL

\* C19 (as stated): every key that holds a url holds an owner token (so no
\* url write of a PATCH has put a url under a key whose record was gone).
CE_C19 == \A k \in Keys : store[k].url # Nil => store[k].token # Nil

====
